---- MODULE Spec2Model ----
(***************************************************************************)
(* Task lifecycle of the currency agent's A2A executor                     *)
(* (examples/a2a_example/agent/agent_executor.py) together with the turns  *)
(* the CLI client (examples/a2a_example/client/main.py) drives against it. *)
(*                                                                         *)
(* execute() is a coroutine: the code between two awaits runs atomically   *)
(* on the event loop.  Its only suspension point is the `async for` over   *)
(* the agent stream, so one invocation is modelled by two actions:         *)
(* ExecuteStart (lines 64-78, up to the first pull from the stream) and    *)
(* StreamYields / StreamRaises / StreamEnds (one pull from the stream and   *)
(* the loop body, lines 81-117).                                           *)
(*                                                                         *)
(* Spec is the server driven by the CLI client, which sends one message    *)
(* at a time and waits for the end of its stream before the next prompt.   *)
(* SpecRace is the server with its requests in flight concurrently.        *)
(* SpecCli is the control flow of the CLI client itself (cli and the       *)
(* recursive completeTask), the agent's answers being its inputs.          *)
(* SpecListener is the client's push-notification listener                 *)
(* (examples/a2a_example/client/push_notification_listener.py) handling    *)
(* the requests on /notify.                                                *)
(***************************************************************************)
EXTENDS Integers, Sequences, FiniteSets

\* Number of requests the server has in flight at a time.
NumInv == 2
\* Number of tasks created (fresh task uuids handed out).
MaxTasks == 2
\* Longest stream of increments the agent yields in one invocation.
MaxInc == 2
\* None, for an absent taskId / contextId of a message.
NoId == 0
\* Number of tasks the user starts at the CLI (iterations of cli's loop).
MaxLoops == 2
\* Depth of the follow-up recursion of completeTask.
MaxDepth == 3
\* Number of requests the push-notification listener receives.
MaxRequests == 3

Invs == 1..NumInv
\* The n-th task created has the fresh uuid n.
TaskIds == 1..MaxTasks
\* A context id a client supplies with a first message (never a fresh uuid).
ClientContext == MaxTasks + 1
\* Task ids a cancel request may name: tasks that may exist and one that never does.
CancelIds == 1..(MaxTasks + 1)

Contents == {"looking up rate", "1 USD = 0.92 EUR"}

\* a2a.types.TaskState values used by the executor, and "none" for no task.
Submitted == "submitted"
Working == "working"
InputRequired == "input-required"
Completed == "completed"
Failed == "failed"
Terminal == {InputRequired, Completed, Failed}

VARIABLES
    pc,        \* pc[i]: "idle" (no request), "stream" (suspended in async for), "done" (execute has ended)
    msg,       \* msg[i]: context.message of invocation i: [taskId, contextId]
    startState,\* startState[i]: state of context.current_task when execute began ("none": no current task)
    task,      \* task[i]: the local `task` of execute: [id, contextId] (id NoId before line 70)
    queue,     \* queue[i]: the events enqueued on invocation i's event_queue, in order
    consumed,  \* consumed[i]: the items pulled from self.agent.stream so far
    raised,    \* raised[i]: the exceptions that left execute, as seen by its caller
    ledger,    \* ledger[t]: the task store's record of task t: [contextId, state]
    nextId,    \* the next fresh task uuid
    lastCancel \* outcome of the latest cancel() call

\* The CLI client (client/main.py)
VARIABLES
    cliPc,         \* where the client is: "loop", "prompt", "send", "return", "exited", "crashed"
    streaming,     \* card.capabilities.streaming
    continue_loop, \* cli's continue_loop: "True", "False", or "tuple" (a non-empty tuple)
    stack,         \* the active completeTask calls, innermost last: [taskId, contextId]
    retval,        \* first element of the tuple the innermost call returns
    started,       \* number of times cli printed "starting a new task"
    quitEntered,   \* the user has answered a prompt with ':q' or 'quit'
    sendFailed,    \* "Failed to complete the call" has been printed
    cliError       \* the exception that ended the client ("none": none)

serverVars == <<pc, msg, startState, task, queue, consumed, raised, ledger, nextId, lastCancel>>

cliVars == <<cliPc, streaming, continue_loop, stack, retval, started, quitEntered,
             sendFailed, cliError>>

\* The push-notification listener (client/push_notification_listener.py)
VARIABLES
    lisPc,      \* where the listener is: "idle", or inside a handler
    request,    \* the request being handled
    data,       \* handle_notification's local `data`
    answers     \* per handled request: the request, what the handler
                \* returned, what it printed

lisVars == <<lisPc, request, data, answers>>

vars == <<serverVars, cliVars, lisVars>>

----------------------------------------------------------------------------
\* Events

TaskEvent(t) ==
    [kind |-> "task", taskId |-> t.id, contextId |-> t.contextId, state |-> Submitted,
     final |-> FALSE, content |-> "", name |-> ""]

\* TaskUpdater.update_status(state, message, final)
StatusEvent(t, state, content, final) ==
    [kind |-> "status", taskId |-> t.id, contextId |-> t.contextId, state |-> state,
     final |-> final, content |-> content, name |-> ""]

\* TaskUpdater.add_artifact(parts, name='conversion_result')
ArtifactEvent(t, content) ==
    [kind |-> "artifact", taskId |-> t.id, contextId |-> t.contextId, state |-> "",
     final |-> FALSE, content |-> content, name |-> "conversion_result"]

\* The task store applies the events in the order they are enqueued.
Apply(l, e) ==
    IF e.kind = "task" THEN [l EXCEPT ![e.taskId] = [contextId |-> e.contextId, state |-> Submitted]]
    ELSE IF e.kind = "status" THEN [l EXCEPT ![e.taskId].state = e.state]
    ELSE l

RECURSIVE ApplyAll(_, _)
ApplyAll(l, es) == IF es = <<>> THEN l ELSE ApplyAll(Apply(l, Head(es)), Tail(es))

----------------------------------------------------------------------------
\* Init: no request received, empty task store.

NoCancel == [taskId |-> NoId, raised |-> "", returned |-> NoId]

\* The client before its task loop, against an agent whose card says `streaming`.
CliStart(s) ==
    /\ cliPc = "loop"
    /\ streaming = s
    /\ continue_loop = "True"
    /\ stack = <<>>
    /\ retval = "none"
    /\ started = 0
    /\ quitEntered = FALSE
    /\ sendFailed = FALSE
    /\ cliError = "none"

\* The server as main() starts it; its card says streaming=True.
ServerInit ==
    /\ pc = [i \in Invs |-> "idle"]
    /\ msg = [i \in Invs |-> [taskId |-> NoId, contextId |-> NoId]]
    /\ startState = [i \in Invs |-> "none"]
    /\ task = [i \in Invs |-> [id |-> NoId, contextId |-> NoId]]
    /\ queue = [i \in Invs |-> <<>>]
    /\ consumed = [i \in Invs |-> <<>>]
    /\ raised = [i \in Invs |-> <<>>]
    /\ ledger = [t \in TaskIds |-> [contextId |-> NoId, state |-> "none"]]
    /\ nextId = 1
    /\ lastCancel = NoCancel

\* No request under way at the listener.
NoRequest == [method |-> "none", validationToken |-> "None", body |-> "none"]

\* The listener once start_server has added its two routes.
ListenerStart ==
    /\ lisPc = "idle"
    /\ request = NoRequest
    /\ data = "none"
    /\ answers = <<>>

Init == ServerInit /\ CliStart(TRUE) /\ ListenerStart

----------------------------------------------------------------------------
\* Requests

NoTask == [id |-> NoId, contextId |-> NoId]

\* An invocation still suspended in the stream loop for task t.
Running(t) == \E j \in Invs : pc[j] = "stream" /\ task[j].id = t

\* First messages carry no taskId: the CLI passes (None, None); another client
\* may name the context it wants the conversation in.
FirstMessages == {[taskId |-> NoId, contextId |-> c] : c \in {NoId, ClientContext}}

\* A client that follows up on a task whatever state get_task shows it in.
FollowUpsInAnyState ==
    {[taskId |-> t, contextId |-> ledger[t].contextId] :
        t \in {u \in TaskIds : ledger[u].state # "none" /\ ~Running(u)}}

\* The CLI's follow-up: once the stream of the previous turn has ended and
\* get_task shows the task in input_required, completeTask calls itself with
\* the task's taskId and contextId.
FollowUps ==
    {[taskId |-> t, contextId |-> ledger[t].contextId] :
        t \in {u \in TaskIds : ledger[u].state = InputRequired /\ ~Running(u)}}

Requests == FirstMessages \cup FollowUps

\* A validator that rejects a message naming no context.
validate_request_rejecting(m) == m.contextId = NoId

\* _validate_request returns the error found; False is "no error".
validate_request(m) == FALSE

\* An executor that never looks at context.current_task.
current_task_ignored(m) == [id |-> NoId, contextId |-> NoId]

\* context.current_task: the stored task the message names, if there is one.
current_task(m) ==
    IF m.taskId # NoId /\ ledger[m.taskId].state # "none"
    THEN [id |-> m.taskId, contextId |-> ledger[m.taskId].contextId]
    ELSE NoTask

\* a2a.utils.new_task(message): ids the message lacks are fresh uuids.
new_task(m, uuid) ==
    [id |-> IF m.taskId # NoId THEN m.taskId ELSE uuid,
     contextId |-> IF m.contextId # NoId THEN m.contextId ELSE uuid]

\* The calls of lines 69-75 that can raise; "none": none of them does.
StartFaults == {"none", "get_user_input", "new_task", "enqueue_event"}

\* An exception that leaves execute as it is, wrapped in no ServerError.
Unclassified == "Exception"

Finish(i, errs) ==
    /\ pc' = [pc EXCEPT ![i] = "done"]
    /\ raised' = [raised EXCEPT ![i] = raised[i] \o errs]

\* execute, lines 64-78: up to the first pull from the agent stream.
ExecuteStart(i) ==
    /\ pc[i] = "idle"
    /\ \A j \in Invs : j < i => pc[j] # "idle"   \* the request takes the first free handler
    /\ \E m \in Requests, fault \in StartFaults :
        LET cur == current_task(m)
            new == new_task(m, nextId)
        IN  /\ cur = NoTask => nextId <= MaxTasks
            /\ fault \in {"new_task", "enqueue_event"} => cur = NoTask
            /\ msg' = [msg EXCEPT ![i] = m]
            /\ startState' = [startState EXCEPT ![i] =
                                IF cur = NoTask THEN "none" ELSE ledger[cur.id].state]
            /\ UNCHANGED <<consumed, lastCancel, cliVars, lisVars>>
            /\ IF validate_request(m)
               THEN /\ Finish(i, <<"InvalidParamsError">>)
                    /\ UNCHANGED <<task, queue, ledger, nextId>>
               ELSE IF fault = "get_user_input" \/ (fault = "new_task" /\ cur = NoTask)
               THEN /\ Finish(i, <<Unclassified>>)
                    /\ UNCHANGED <<task, queue, ledger, nextId>>
               ELSE IF cur # NoTask
               THEN /\ task' = [task EXCEPT ![i] = cur]
                    /\ pc' = [pc EXCEPT ![i] = "stream"]
                    /\ UNCHANGED <<queue, ledger, nextId, raised>>
               ELSE IF fault = "enqueue_event"
               THEN /\ task' = [task EXCEPT ![i] = new]
                    /\ nextId' = nextId + 1
                    /\ Finish(i, <<Unclassified>>)
                    /\ UNCHANGED <<queue, ledger>>
               ELSE /\ task' = [task EXCEPT ![i] = new]
                    /\ nextId' = nextId + 1
                    /\ queue' = [queue EXCEPT ![i] = Append(queue[i], TaskEvent(new))]
                    /\ ledger' = Apply(ledger, TaskEvent(new))
                    /\ pc' = [pc EXCEPT ![i] = "stream"]
                    /\ UNCHANGED raised

----------------------------------------------------------------------------
\* The stream loop

\* What self.agent.stream yields: a dict with the two flags and the content,
\* or a dict that lacks the flag keys (hasFlags = FALSE).
Items ==
    [is_task_complete : BOOLEAN, require_user_input : BOOLEAN,
     content : Contents, hasFlags : {TRUE}]
    \cup
    [is_task_complete : {FALSE}, require_user_input : {FALSE},
     content : {"looking up rate"}, hasFlags : {FALSE}]

\* The branches with is_task_complete tested before require_user_input.
BranchCompleteFirst(item) ==
    IF ~item.is_task_complete /\ ~item.require_user_input THEN "working"
    ELSE IF item.is_task_complete THEN "complete"
    ELSE "input_required"

\* The if / elif / else of lines 86-113.
Branch(item) ==
    IF ~item.is_task_complete /\ ~item.require_user_input THEN "working"
    ELSE IF item.require_user_input THEN "input_required"
    ELSE "complete"

\* The loop with the `break` of line 106 left out.
BreaksOnCompleteOnly(branch) == branch = "complete"

\* The loop left after every increment.
BreaksAlways(branch) == TRUE

\* The `break` of lines 106 and 113.
Breaks(branch) == branch # "working"

\* The completion branch with complete() called before add_artifact().
UpdatesCompleteFirst(t, item) ==
    IF item.is_task_complete /\ ~item.require_user_input
    THEN <<StatusEvent(t, Completed, "", TRUE), ArtifactEvent(t, item.content)>>
    ELSE IF item.require_user_input
    THEN <<StatusEvent(t, InputRequired, item.content, TRUE)>>
    ELSE <<StatusEvent(t, Working, item.content, FALSE)>>

\* The completion branch as one Completed status update that carries the
\* result as its message, with no add_artifact call.
UpdatesCompletedOnly(t, item) ==
    IF ~item.is_task_complete /\ ~item.require_user_input
    THEN <<StatusEvent(t, Working, item.content, FALSE)>>
    ELSE IF item.require_user_input
    THEN <<StatusEvent(t, InputRequired, item.content, TRUE)>>
    ELSE <<StatusEvent(t, Completed, item.content, TRUE)>>

\* The input-required update without final=True.
UpdatesNotFinal(t, item) ==
    IF ~item.is_task_complete /\ ~item.require_user_input
    THEN <<StatusEvent(t, Working, item.content, FALSE)>>
    ELSE IF item.require_user_input
    THEN <<StatusEvent(t, InputRequired, item.content, FALSE)>>
    ELSE <<ArtifactEvent(t, item.content), StatusEvent(t, Completed, "", TRUE)>>

\* The working branch only logging, with no update_status call.
UpdatesSkipWorking(t, item) ==
    IF ~item.is_task_complete /\ ~item.require_user_input
    THEN <<>>
    ELSE IF item.require_user_input
    THEN <<StatusEvent(t, InputRequired, item.content, TRUE)>>
    ELSE <<ArtifactEvent(t, item.content), StatusEvent(t, Completed, "", TRUE)>>

\* Every final update preceded by a Working update of the same content.
UpdatesViaWorking(t, item) ==
    IF ~item.is_task_complete /\ ~item.require_user_input
    THEN <<StatusEvent(t, Working, item.content, FALSE)>>
    ELSE IF item.require_user_input
    THEN <<StatusEvent(t, Working, item.content, FALSE),
           StatusEvent(t, InputRequired, item.content, TRUE)>>
    ELSE <<StatusEvent(t, Working, item.content, FALSE),
           ArtifactEvent(t, item.content), StatusEvent(t, Completed, "", TRUE)>>

\* The updater calls of the branch taken, one event each, in call order.
Updates(t, item) ==
    LET b == Branch(item) IN
    IF b = "working" THEN <<StatusEvent(t, Working, item.content, FALSE)>>
    ELSE IF b = "input_required" THEN <<StatusEvent(t, InputRequired, item.content, TRUE)>>
    ELSE <<ArtifactEvent(t, item.content), StatusEvent(t, Completed, "", TRUE)>>

Enqueue(i, es) ==
    /\ queue' = [queue EXCEPT ![i] = queue[i] \o es]
    /\ ledger' = ApplyAll(ledger, es)

\* One pull that yields an item, and the loop body for it.  faultAt = k > 0:
\* the k-th updater call of the body raises.
StreamYields(i) ==
    /\ pc[i] = "stream"
    /\ Len(consumed[i]) < MaxInc
    /\ \E item \in Items :
        /\ consumed' = [consumed EXCEPT ![i] = Append(consumed[i], item)]
        /\ UNCHANGED <<msg, startState, task, nextId, lastCancel, cliVars, lisVars>>
        /\ IF ~item.hasFlags
           THEN \* item['is_task_complete'] raises KeyError
                /\ Finish(i, <<"InternalError">>)
                /\ UNCHANGED <<queue, ledger>>
           ELSE \E faultAt \in 0..Len(Updates(task[i], item)) :
                LET es == Updates(task[i], item) IN
                IF faultAt > 0
                THEN /\ Enqueue(i, SubSeq(es, 1, faultAt - 1))
                     /\ Finish(i, <<"InternalError">>)
                ELSE /\ Enqueue(i, es)
                     /\ IF Breaks(Branch(item))
                        THEN Finish(i, <<>>)
                        ELSE UNCHANGED <<pc, raised>>

\* The pull raises: the except clause of lines 115-117.
StreamRaises(i) ==
    /\ pc[i] = "stream"
    /\ Finish(i, <<"InternalError">>)
    /\ UNCHANGED <<msg, startState, task, queue, consumed, ledger, nextId, lastCancel, cliVars, lisVars>>

\* An executor that completes the task when the stream is exhausted.
StreamEndsCompleting(i) ==
    /\ pc[i] = "stream"
    /\ Enqueue(i, <<StatusEvent(task[i], Completed, "", TRUE)>>)
    /\ Finish(i, <<>>)
    /\ UNCHANGED <<msg, startState, task, consumed, nextId, lastCancel, cliVars, lisVars>>

\* The stream is exhausted: the loop ends and execute returns.
StreamEnds(i) ==
    /\ pc[i] = "stream"
    /\ Finish(i, <<>>)
    /\ UNCHANGED <<msg, startState, task, queue, consumed, ledger, nextId, lastCancel, cliVars, lisVars>>

----------------------------------------------------------------------------
\* cancel

StateOf(t) == IF t \in TaskIds THEN ledger[t].state ELSE "none"

\* A cancel that reports an unknown task as not found and hands back a task
\* that has already ended.
cancelByState(t, state) ==
    IF state = "none"
    THEN [taskId |-> t, raised |-> "TaskNotFoundError", returned |-> NoId]
    ELSE IF state \in Terminal
    THEN [taskId |-> t, raised |-> "", returned |-> t]
    ELSE [taskId |-> t, raised |-> "UnsupportedOperationError", returned |-> NoId]

\* cancel(request, event_queue), for a request that names task t, which the
\* store holds in `state`: what the call raises and the task it returns.
cancel(t, state) ==
    [taskId |-> t, raised |-> "UnsupportedOperationError", returned |-> NoId]

\* A cancel that records the task as canceled before it raises.
CancelRecordingCanceled ==
    /\ \E t \in CancelIds :
        /\ lastCancel' = cancel(t, StateOf(t))
        /\ ledger' = IF StateOf(t) # "none"
                     THEN [ledger EXCEPT ![t].state = "canceled"]
                     ELSE ledger
    /\ UNCHANGED <<pc, msg, startState, task, queue, consumed, raised, nextId, cliVars, lisVars>>

Cancel ==
    /\ \E t \in CancelIds : lastCancel' = cancel(t, StateOf(t))
    /\ UNCHANGED <<pc, msg, startState, task, queue, consumed, raised, ledger, nextId, cliVars, lisVars>>

----------------------------------------------------------------------------
\* The callers

\* The caller has taken the outcome of invocation i; the request is over.
Return(i) ==
    /\ pc[i] = "done"
    /\ pc' = [pc EXCEPT ![i] = "idle"]
    /\ msg' = [msg EXCEPT ![i] = [taskId |-> NoId, contextId |-> NoId]]
    /\ startState' = [startState EXCEPT ![i] = "none"]
    /\ task' = [task EXCEPT ![i] = NoTask]
    /\ queue' = [queue EXCEPT ![i] = <<>>]
    /\ consumed' = [consumed EXCEPT ![i] = <<>>]
    /\ raised' = [raised EXCEPT ![i] = <<>>]
    /\ UNCHANGED <<ledger, nextId, lastCancel, cliVars, lisVars>>

\* The CLI's task loop: completeTask sends one message and reads its stream
\* to the end before it prompts for the next message.
CliSend(i) ==
    /\ \A j \in Invs : pc[j] = "idle"
    /\ ExecuteStart(i)

Next ==
    \/ \E i \in Invs : CliSend(i)
    \/ \E i \in Invs : StreamYields(i)
    \/ \E i \in Invs : StreamRaises(i)
    \/ \E i \in Invs : StreamEnds(i)
    \/ \E i \in Invs : Return(i)
    \/ Cancel

Spec == Init /\ [][Next]_vars

\* Requests of several clients in flight at once.
NextRace ==
    \/ \E i \in Invs : ExecuteStart(i)
    \/ \E i \in Invs : StreamYields(i)
    \/ \E i \in Invs : StreamRaises(i)
    \/ \E i \in Invs : StreamEnds(i)
    \/ \E i \in Invs : Return(i)

SpecRace == Init /\ [][NextRace]_vars

----------------------------------------------------------------------------
\* The CLI client: cli (lines 97-111) and completeTask (lines 125-307)

\* What the user types at click.prompt.
Prompts == {":q", "quit", "What is 10 USD in EUR?"}

\* What the agent answers to a message: an error, a Message, or a Task that
\* get_task / send_message shows in some state.  In non-streaming mode
\* "error" is send_message (or event.root.result) raising.
Answers ==
    [kind : {"error", "message"}, state : {"none"}]
    \cup [kind : {"task"}, state : {Submitted, Working, InputRequired, Completed}]

\* Python truthiness of continue_loop: a non-empty tuple is true.
Truthy(v) == v # "False"

Innermost == stack[Len(stack)]

\* `return v, contextId, taskId` in the innermost call.
CliReturnValue(v) ==
    /\ retval' = v
    /\ cliPc' = "return"

\* cli, lines 101-111: `while continue_loop:` and the call of completeTask.
CliLoop ==
    /\ cliPc = "loop"
    /\ IF Truthy(continue_loop)
       THEN /\ started < MaxLoops
            /\ started' = started + 1
            /\ stack' = <<[taskId |-> NoId, contextId |-> NoId]>>
            /\ cliPc' = "prompt"
       ELSE /\ cliPc' = "exited"
            /\ UNCHANGED <<started, stack>>
    /\ UNCHANGED <<streaming, continue_loop, retval, quitEntered, sendFailed, cliError>>
    /\ UNCHANGED <<serverVars, lisVars>>

\* completeTask, lines 151-157: the prompt, and the early return on quit.
CliPrompt ==
    /\ cliPc = "prompt"
    /\ \E prompt \in Prompts :
        IF prompt = ":q" \/ prompt = "quit"
        THEN /\ quitEntered' = TRUE
             /\ CliReturnValue("False")
        ELSE /\ cliPc' = "send"
             /\ UNCHANGED <<quitEntered, retval>>
    /\ UNCHANGED <<streaming, continue_loop, stack, started, sendFailed, cliError>>
    /\ UNCHANGED <<serverVars, lisVars>>

\* The task of the answer: the message's task, or the one the agent created
\* for this turn.
AnsweredFrame ==
    IF Innermost.taskId # NoId THEN Innermost
    ELSE [taskId |-> started, contextId |-> started]

\* Lines 269-307: what completeTask does with the message or task it got.
CliHandle(answer) ==
    IF answer.kind = "message"
    THEN /\ CliReturnValue("True")
         /\ UNCHANGED stack
    ELSE IF answer.state = InputRequired
    THEN \* completeTask calls itself with taskId and contextId
         /\ Len(stack) < MaxDepth
         /\ stack' = Append([stack EXCEPT ![Len(stack)] = AnsweredFrame], AnsweredFrame)
         /\ cliPc' = "prompt"
         /\ UNCHANGED retval
    ELSE /\ CliReturnValue("True")
         /\ stack' = [stack EXCEPT ![Len(stack)] = AnsweredFrame]

\* Lines 214-247: streaming mode.  An error response ends the call with
\* (False, contextId, taskId); otherwise the events name the task and
\* get_task fetches it.
CliStream ==
    /\ cliPc = "send" /\ streaming
    /\ \E answer \in Answers :
        IF answer.kind = "error"
        THEN /\ CliReturnValue("False")
             /\ UNCHANGED stack
        ELSE CliHandle(answer)
    /\ UNCHANGED <<streaming, continue_loop, started, quitEntered, sendFailed, cliError>>
    /\ UNCHANGED <<serverVars, lisVars>>

\* Lines 248-267: non-streaming mode.  `event` is bound only when the try
\* block ran to its end; the lines after the except clause read it.
CliSendMessage ==
    /\ cliPc = "send" /\ ~streaming
    /\ \E answer \in Answers :
        LET eventBound == answer.kind # "error" IN
        /\ sendFailed' = (sendFailed \/ answer.kind = "error")
        /\ IF eventBound
           THEN /\ CliHandle(answer)
                /\ UNCHANGED cliError
           ELSE \* line 261 or line 262 reads the unbound local `event`
                /\ cliError' = "UnboundLocalError"
                /\ cliPc' = "crashed"
                /\ stack' = <<>>
                /\ UNCHANGED retval
    /\ UNCHANGED <<streaming, continue_loop, started, quitEntered>>
    /\ UNCHANGED <<serverVars, lisVars>>

\* A call returns its tuple.  To the caller of a follow-up call (lines
\* 291-303) the whole tuple becomes the first element of its own result;
\* to cli (line 103) the first element becomes continue_loop.
CliReturn ==
    /\ cliPc = "return"
    /\ stack' = SubSeq(stack, 1, Len(stack) - 1)
    /\ IF Len(stack) > 1
       THEN /\ retval' = "tuple"
            /\ UNCHANGED <<cliPc, continue_loop>>
       ELSE /\ continue_loop' = retval
            /\ cliPc' = "loop"
            /\ retval' = "none"
    /\ UNCHANGED <<streaming, started, quitEntered, sendFailed, cliError>>
    /\ UNCHANGED <<serverVars, lisVars>>

CliInit == ServerInit /\ ListenerStart /\ \E s \in BOOLEAN : CliStart(s)

CliNext ==
    \/ CliLoop
    \/ CliPrompt
    \/ CliStream
    \/ CliSendMessage
    \/ CliReturn

SpecCli == CliInit /\ [][CliNext]_vars

----------------------------------------------------------------------------
\* The push-notification listener: the two handlers of /notify
\* (push_notification_listener.py, lines 77-125)

\* A query parameter that is absent ("None"), empty, or a token.
ValidationTokens == {"None", "", "token-1"}

\* The requests the two routes accept: GET /notify with or without
\* validationToken, POST /notify with a body that is JSON or is not.
ListenerRequests ==
    [method : {"GET"}, validationToken : ValidationTokens, body : {"none"}]
    \cup [method : {"POST"}, validationToken : {"None"}, body : {"json", "not json"}]

\* Python's `not validation_token`.
Falsy(token) == token \in {"None", ""}

\* starlette's Response(content=..., status_code=...).
Response(content, status_code) ==
    [kind |-> "Response", status_code |-> status_code, content |-> content]

\* A bare `return`: the handler returns None.
ReturnsNone == [kind |-> "None", status_code |-> 0, content |-> ""]

\* The handler is left by an exception.
Raises == [kind |-> "raised", status_code |-> 0, content |-> ""]

\* What verify_push_notification can do with a request: return True, return
\* False, or raise.
Verifications == {"True", "False", "raises"}

\* starlette routes a request on /notify to the handler of its method.
ListenerReceive ==
    /\ lisPc = "idle"
    /\ Len(answers) < MaxRequests
    /\ \E r \in ListenerRequests :
        /\ request' = r
        /\ lisPc' = IF r.method = "GET" THEN "handle_validation_check"
                    ELSE "handle_notification"
    /\ UNCHANGED <<data, answers>>
    /\ UNCHANGED <<serverVars, cliVars>>

\* The handler ends: what it returned and printed is the answer to the request.
Answer(verified, response, lines) ==
    /\ answers' = Append(answers, [request |-> request, verified |-> verified,
                                   response |-> response,
                                   printed |-> lines])
    /\ lisPc' = "idle"
    /\ request' = NoRequest
    /\ data' = "none"

\* handle_validation_check, lines 90-98.
handle_validation_check ==
    /\ lisPc = "handle_validation_check"
    /\ LET validation_token == request.validationToken IN
        Answer("not asked",
               IF Falsy(validation_token) THEN Response("", 400)
               ELSE Response(validation_token, 200),
               {"push notification verification received"})
    /\ UNCHANGED <<serverVars, cliVars>>

\* handle_notification, line 112: `data = await request.json()`, outside
\* the try block.
request_json ==
    /\ lisPc = "handle_notification"
    /\ IF request.body = "json"
       THEN /\ data' = request.body
            /\ lisPc' = "verify_push_notification"
            /\ UNCHANGED <<request, answers>>
       ELSE Answer("not asked", Raises, {})
    /\ UNCHANGED <<serverVars, cliVars>>

\* handle_notification, lines 113-125: the verification and the three ways
\* out of the handler.
handle_notification ==
    /\ lisPc = "verify_push_notification"
    /\ \E verified \in Verifications :
        IF verified = "False"
        THEN Answer(verified, ReturnsNone, {"push notification verification failed"})
        ELSE IF verified = "raises"
        THEN Answer(verified, ReturnsNone,
                    {"error verifying push notification", "traceback"})
        ELSE Answer(verified, Response("", 200), {"push notification received"})
    /\ UNCHANGED <<serverVars, cliVars>>

ListenerNext ==
    \/ ListenerReceive
    \/ handle_validation_check
    \/ request_json
    \/ handle_notification

SpecListener == Init /\ [][ListenerNext]_vars

----------------------------------------------------------------------------
\* Vocabulary of the properties

Last(s) == s[Len(s)]

StatusAt(q) == {k \in 1..Len(q) : q[k].kind = "status"}
CompletedAt(q) == {k \in StatusAt(q) : q[k].state = Completed}
TerminalAt(q) == {k \in StatusAt(q) : q[k].state \in Terminal}
ArtifactAt(q) == {k \in 1..Len(q) : q[k].kind = "artifact"}
TaskEventAt(q) == {k \in 1..Len(q) : q[k].kind = "task"}

IsWorkingItem(item) ==
    item.hasFlags /\ ~item.is_task_complete /\ ~item.require_user_input

\* The increments end in one with is_task_complete, all earlier ones having both flags false.
EndsInComplete(c) ==
    /\ c # <<>>
    /\ Last(c).hasFlags /\ Last(c).is_task_complete
    /\ \A k \in 1..(Len(c) - 1) : IsWorkingItem(c[k])

\* execute has ended without raising.
Returned(i) == pc[i] = "done" /\ raised[i] = <<>>

----------------------------------------------------------------------------
\* C1 as stated: whenever the increments execute consumed end in one increment
\* with is_task_complete=true (the earlier ones having both flags false),
\* the events of the invocation hold exactly one Completed status event and it
\* is the last event.
C1_AsStated ==
    \A i \in Invs :
        Returned(i) /\ EndsInComplete(consumed[i])
        => /\ Cardinality(CompletedAt(queue[i])) = 1
           /\ Last(queue[i]).kind = "status" /\ Last(queue[i]).state = Completed

\* C1 amended: the same, for a last increment whose require_user_input is false.
\* Whether or not execute raised, no invocation holds two Completed events or an
\* event after Completed.
C1_CompletedOnceAndLast ==
    \A i \in Invs :
        /\ Cardinality(CompletedAt(queue[i])) <= 1
        /\ \A k \in CompletedAt(queue[i]) : k = Len(queue[i])
        /\ Returned(i) /\ EndsInComplete(consumed[i]) /\ ~Last(consumed[i]).require_user_input
           => /\ Cardinality(CompletedAt(queue[i])) = 1
              /\ Last(queue[i]).kind = "status" /\ Last(queue[i]).state = Completed

C1_Witness ==
    \E i \in Invs :
        /\ Returned(i) /\ Len(consumed[i]) = MaxInc
        /\ EndsInComplete(consumed[i]) /\ ~Last(consumed[i]).require_user_input
        /\ Last(queue[i]).state = Completed

----------------------------------------------------------------------------
\* C2: once execute has consumed an increment with require_user_input=true at
\* position k, it consumes no further increment (k stays the last position and
\* the invocation has ended) and the last event it emitted is the one for
\* increment k: at most one event per increment up to k, none after.
C2_StopsAtInputRequired ==
    \A i \in Invs :
        \A k \in 1..Len(consumed[i]) :
            consumed[i][k].hasFlags /\ consumed[i][k].require_user_input
            => /\ k = Len(consumed[i])
               /\ pc[i] = "done"
               /\ Cardinality(StatusAt(queue[i])) <= k
               /\ ArtifactAt(queue[i]) = {}
               /\ raised[i] = <<>> => /\ Cardinality(StatusAt(queue[i])) = k
                                      /\ Last(queue[i]).state = InputRequired

C2_Witness ==
    \E i \in Invs :
        /\ Returned(i) /\ Len(consumed[i]) = 1 /\ MaxInc > 1
        /\ consumed[i][1].require_user_input /\ ~consumed[i][1].is_task_complete
        /\ Last(queue[i]).state = InputRequired

----------------------------------------------------------------------------
\* C3: in every invocation, whatever the stream yields and whether or not it
\* raises, at most one terminal status event (InputRequired, Completed,
\* Failed) is enqueued and no event follows it.
C3_OneTerminalEventLast ==
    \A i \in Invs :
        /\ Cardinality(TerminalAt(queue[i])) <= 1
        /\ \A k \in TerminalAt(queue[i]) : k = Len(queue[i]) /\ pc[i] = "done"

C3_Witness ==
    \E i \in Invs :
        /\ pc[i] = "done" /\ Len(consumed[i]) = MaxInc
        /\ TerminalAt(queue[i]) = {Len(queue[i])}
        /\ Len(queue[i]) >= 3

----------------------------------------------------------------------------
\* C4 as stated: when the pull from the agent stream raises, execute raises
\* exactly one InternalError to its caller and the task's recorded state is
\* then Failed.
C4_StreamRaiseRecordsFailed ==
    [][\A i \in Invs :
        StreamRaises(i)
        => /\ raised'[i] = <<"InternalError">>
           /\ ledger'[task[i].id].state = Failed]_vars

----------------------------------------------------------------------------
\* C5 as stated: when two invocations for the same new context are in flight
\* together, neither having found a current task, one Task has been created
\* and one Task event enqueued across the two.
C5_OneTaskPerRacingContext ==
    \A i, j \in Invs :
        /\ i # j
        /\ pc[i] = "stream" /\ pc[j] = "stream"
        /\ startState[i] = "none" /\ startState[j] = "none"
        /\ msg[i].contextId = ClientContext /\ msg[j].contextId = ClientContext
        => /\ task[i].id = task[j].id
           /\ Cardinality(TaskEventAt(queue[i])) + Cardinality(TaskEventAt(queue[j])) = 1

----------------------------------------------------------------------------
\* C6 as stated: once the recorded state of a task is Completed, InputRequired
\* or Failed, no later event moves that task to another state.
C6_TerminalStatesAreNeverLeft ==
    [][\A t \in TaskIds :
        ledger[t].state \in Terminal => ledger'[t].state = ledger[t].state]_vars

\* An invocation that took task t as context.current_task when t was in
\* InputRequired: the follow-up turn of the client.
FollowUpOn(t) ==
    \E i \in Invs :
        pc[i] = "stream" /\ msg[i].taskId = t /\ task[i].id = t /\ startState[i] = InputRequired

\* C6 amended: under the turns the CLI client drives, a Completed task is never
\* moved to another state (the next turn creates a new task) and no task is
\* ever recorded Failed; a task in InputRequired is moved on only by the
\* follow-up turn, which carries the old task id, takes the old task as
\* current_task and emits its events for that id.
C6_OnlyFollowUpLeavesInputRequired ==
    [][\A t \in TaskIds :
        /\ ledger[t].state = Completed => ledger'[t] = ledger[t]
        /\ ledger'[t].state # Failed
        /\ ledger[t].state = InputRequired /\ ledger'[t].state # InputRequired
           => FollowUpOn(t) /\ ledger'[t].contextId = ledger[t].contextId]_vars

C6_Witness ==
    \E t \in TaskIds, i \in Invs :
        /\ startState[i] = InputRequired /\ task[i].id = t
        /\ ledger[t].state = Working
        /\ TaskEventAt(queue[i]) = {}

----------------------------------------------------------------------------
\* C7 as stated: an increment with both flags true takes the completion
\* branch: the invocation ends with the conversion_result artifact followed
\* by the Completed status event.
C7_BothFlagsCompletes ==
    \A i \in Invs :
        /\ Returned(i) /\ consumed[i] # <<>>
        /\ Last(consumed[i]).is_task_complete /\ Last(consumed[i]).require_user_input
        => /\ Last(queue[i]).state = Completed
           /\ ArtifactAt(queue[i]) # {}

\* C7 amended: an increment with both flags true takes the input-required
\* branch: execute emits one final InputRequired status event carrying the
\* increment's content, attaches no artifact and emits no Completed event.
C7_BothFlagsAsksForInput ==
    \A i \in Invs :
        /\ Returned(i) /\ consumed[i] # <<>>
        /\ Last(consumed[i]).is_task_complete /\ Last(consumed[i]).require_user_input
        => /\ Last(queue[i]) =
                StatusEvent(task[i], InputRequired, Last(consumed[i]).content, TRUE)
           /\ ArtifactAt(queue[i]) = {}
           /\ CompletedAt(queue[i]) = {}

C7_Witness ==
    \E i \in Invs :
        /\ Returned(i) /\ consumed[i] # <<>>
        /\ Last(consumed[i]).is_task_complete /\ Last(consumed[i]).require_user_input
        /\ ledger[task[i].id].state = InputRequired

----------------------------------------------------------------------------
\* C8: every cancel request, for a task in any state or for a task that does
\* not exist, raises UnsupportedOperationError and returns no Task.
C8_CancelIsUnsupported ==
    lastCancel # NoCancel
    => /\ lastCancel.raised = "UnsupportedOperationError"
       /\ lastCancel.returned = NoId

\* A cancel request that names a task the store does not hold, answered while
\* the store holds another task that has completed.
C8_Witness ==
    /\ lastCancel.raised = "UnsupportedOperationError"
    /\ lastCancel.taskId \in TaskIds
    /\ ledger[lastCancel.taskId].state = "none"
    /\ \E t \in TaskIds : ledger[t].state = Completed

----------------------------------------------------------------------------
\* C9: an invocation that raises InvalidParamsError has created no task and
\* enqueued no event; and, the validator reporting no error for any message,
\* no invocation raises InvalidParamsError.
C9_NoInvalidParams ==
    \A i \in Invs :
        /\ raised[i] = <<"InvalidParamsError">> => queue[i] = <<>> /\ task[i] = NoTask
        /\ \A k \in 1..Len(raised[i]) : raised[i][k] # "InvalidParamsError"

\* An invocation that has passed validation and created its task.
C9_Witness ==
    \E i \in Invs :
        /\ pc[i] = "stream" /\ msg[i].contextId = NoId
        /\ TaskEventAt(queue[i]) = {1}

----------------------------------------------------------------------------
\* C10 as stated: whatever fails inside execute after validation, the caller
\* sees InternalError and nothing else.
C10_EveryFailureIsInternalError ==
    \A i \in Invs :
        pc[i] = "done" /\ raised[i] # <<>> => raised[i] = <<"InternalError">>

----------------------------------------------------------------------------
\* The events of an invocation other than the Task event: its update events.
IsUpdate(e) == e.kind # "task"
UpdateEvents(q) == SelectSeq(q, IsUpdate)
IsStatus(e) == e.kind = "status"
StatusEvents(q) == SelectSeq(q, IsStatus)

\* The last increment consumed is the completing one (require_user_input false).
EndsInCompletion(c) == EndsInComplete(c) /\ ~Last(c).require_user_input

\* C11 as stated: for the increment with is_task_complete=true execute
\* produces a single event, final and Completed, that carries the artifact
\* conversion_result with the increment's content: one update event per
\* increment.
C11_CompletedEventCarriesArtifact ==
    \A i \in Invs :
        Returned(i) /\ EndsInCompletion(consumed[i])
        => LET u == UpdateEvents(queue[i]) IN
           /\ Len(u) = Len(consumed[i])
           /\ Last(u).state = Completed /\ Last(u).final
           /\ Last(u).name = "conversion_result"
           /\ Last(u).content = Last(consumed[i]).content

\* C11 amended: the completing increment produces two events, the artifact
\* update named conversion_result with the increment's content and then the
\* final Completed status update, which carries neither artifact nor message;
\* the earlier increments produce one Working update each.
C11_ArtifactThenCompleted ==
    \A i \in Invs :
        Returned(i) /\ EndsInCompletion(consumed[i])
        => LET u == UpdateEvents(queue[i])
               n == Len(consumed[i])
           IN /\ Len(u) = n + 1
              /\ \A k \in 1..(n - 1) :
                    u[k] = StatusEvent(task[i], Working, consumed[i][k].content, FALSE)
              /\ u[n] = ArtifactEvent(task[i], Last(consumed[i]).content)
              /\ u[n].name = "conversion_result"
              /\ u[n + 1] = StatusEvent(task[i], Completed, "", TRUE)

\* The scenario: "looking up rate" as a working increment, then the result.
C11_Witness ==
    \E i \in Invs :
        /\ Returned(i) /\ Len(consumed[i]) = 2
        /\ IsWorkingItem(consumed[i][1]) /\ consumed[i][1].content = "looking up rate"
        /\ consumed[i][2].is_task_complete /\ ~consumed[i][2].require_user_input
        /\ consumed[i][2].content = "1 USD = 0.92 EUR"
        /\ Len(UpdateEvents(queue[i])) = 3

----------------------------------------------------------------------------
\* C12: when the only increment consumed has require_user_input=true and
\* is_task_complete=false, execute emits exactly one update event, the final
\* InputRequired status with the increment's content as its message, and on
\* its return the task is recorded InputRequired.
C12_SingleInputRequired ==
    \A i \in Invs :
        /\ Returned(i) /\ Len(consumed[i]) = 1
        /\ consumed[i][1].hasFlags
        /\ consumed[i][1].require_user_input /\ ~consumed[i][1].is_task_complete
        => /\ UpdateEvents(queue[i]) =
                <<StatusEvent(task[i], InputRequired, consumed[i][1].content, TRUE)>>
           /\ ledger[task[i].id].state = InputRequired

C12_Witness ==
    \E i \in Invs :
        /\ Returned(i) /\ Len(consumed[i]) = 1
        /\ consumed[i][1].require_user_input /\ ~consumed[i][1].is_task_complete
        /\ Len(queue[i]) = 2 /\ Last(queue[i]).final

----------------------------------------------------------------------------
\* C13: a step that consumes an increment with both flags false, no updater
\* call raising, enqueues exactly one event, the non-final Working status
\* with the increment's content; the task is then recorded Working and the
\* invocation stays in the stream loop, ready for the next increment.
C13_WorkingContinues ==
    [][\A i \in Invs :
        /\ Len(consumed'[i]) = Len(consumed[i]) + 1
        /\ IsWorkingItem(Last(consumed'[i]))
        /\ raised'[i] = <<>>
        => /\ queue'[i] = Append(queue[i],
                StatusEvent(task[i], Working, Last(consumed'[i]).content, FALSE))
           /\ ledger'[task[i].id].state = Working
           /\ pc'[i] = "stream"]_vars

\* Two working increments consumed, the invocation still in the loop.
C13_Witness ==
    \E i \in Invs :
        /\ pc[i] = "stream" /\ Len(consumed[i]) = 2
        /\ IsWorkingItem(consumed[i][1]) /\ IsWorkingItem(consumed[i][2])
        /\ Len(StatusEvents(queue[i])) = 2

----------------------------------------------------------------------------
\* The state of the status update that answers an increment.
AnswerState(item) ==
    IF IsWorkingItem(item) THEN Working
    ELSE IF item.require_user_input THEN InputRequired
    ELSE Completed

----------------------------------------------------------------------------
\* C15: a step on which a cancel request is answered changes nothing of any
\* invocation, event queue or task record, also while execute is in its
\* stream loop for the task named; and no event is ever enqueued for a task
\* by anything but the invocation working on it.
C15_CancelChangesNothing ==
    [][/\ lastCancel' # lastCancel
          => UNCHANGED <<pc, msg, startState, task, queue, consumed, raised, ledger, nextId>>
       /\ \A t \in TaskIds :
            ledger'[t] # ledger[t]
            => \E i \in Invs : task'[i].id = t /\ queue'[i] # queue[i]]_vars

\* A cancel request for the task an invocation is streaming for, answered
\* between two of its increments.
C15_Witness ==
    \E i \in Invs :
        /\ pc[i] = "stream" /\ consumed[i] # <<>>
        /\ lastCancel.taskId = task[i].id
        /\ lastCancel.raised = "UnsupportedOperationError"

----------------------------------------------------------------------------
WorkingAt(q) == {k \in StatusAt(q) : q[k].state = Working}

\* An invocation that found no current task and has created one.
CreatedTask(i) == pc[i] # "idle" /\ msg[i].taskId = NoId /\ queue[i] # <<>>

\* C16 as stated: in an invocation that created its task, a Working status
\* event precedes the InputRequired or Completed event.
C16_TerminalOnlyFromWorking ==
    \A i \in Invs :
        CreatedTask(i)
        => \A k \in TerminalAt(queue[i]) : \E w \in WorkingAt(queue[i]) : w < k

\* C16 amended: the task is created in Submitted and stays there until the
\* first increment; it is moved to Working only by an increment with both
\* flags false.  A first increment that asks for input or completes moves
\* the task from Submitted straight to InputRequired or Completed, with no
\* Working event: a Working event precedes the terminal event exactly when
\* an earlier increment had both flags false.
C16_WorkingOnlyByWorkingIncrement ==
    \A i \in Invs :
        CreatedTask(i)
        => /\ queue[i][1] = TaskEvent(task[i]) /\ queue[i][1].state = Submitted
           /\ consumed[i] = <<>> => ledger[task[i].id].state = Submitted
           /\ Cardinality(WorkingAt(queue[i])) =
                Cardinality({k \in 1..Len(consumed[i]) :
                    IsWorkingItem(consumed[i][k]) /\ k <= Len(StatusEvents(queue[i]))})
           /\ \A k \in TerminalAt(queue[i]) :
                (\E w \in WorkingAt(queue[i]) : w < k) <=> Len(consumed[i]) >= 2

\* A first increment that completes: Submitted, then Completed.
C16_Witness ==
    \E i \in Invs :
        /\ CreatedTask(i) /\ Returned(i) /\ Len(consumed[i]) = 1
        /\ ledger[task[i].id].state = Completed
        /\ WorkingAt(queue[i]) = {}

----------------------------------------------------------------------------
\* C17: an invocation whose message names no task creates one, and its Task
\* event is the first event of the invocation; an invocation whose message
\* names a stored task creates none, enqueues no Task event and works on
\* that task; either way every event of the invocation carries the id and
\* the contextId of that one task.  (An invocation that raised before line
\* 78 has enqueued nothing.)
C17_TaskEventIffNoCurrentTask ==
    \A i \in Invs :
        /\ raised[i] = <<Unclassified>> => queue[i] = <<>>
        /\ pc[i] # "idle" /\ raised[i] # <<Unclassified>>
           => /\ msg[i].taskId = NoId
                 => /\ TaskEventAt(queue[i]) = {1}
                    /\ queue[i][1] = TaskEvent(task[i])
              /\ msg[i].taskId # NoId
                 => /\ TaskEventAt(queue[i]) = {}
                    /\ task[i] = [id |-> msg[i].taskId, contextId |-> msg[i].contextId]
                    /\ ledger[task[i].id].contextId = task[i].contextId
              /\ \A k \in 1..Len(queue[i]) :
                    /\ queue[i][k].taskId = task[i].id
                    /\ queue[i][k].contextId = task[i].contextId

\* A follow-up turn that has emitted its events for the old task.
C17_Witness ==
    \E i \in Invs :
        /\ Returned(i) /\ msg[i].taskId # NoId
        /\ Len(queue[i]) >= 2 /\ TaskEventAt(queue[i]) = {}

----------------------------------------------------------------------------
\* execute has returned after a stream of increments with both flags false.
EndedWorking(i) ==
    Returned(i) /\ \A k \in 1..Len(consumed[i]) : IsWorkingItem(consumed[i][k])

\* C18 as stated: when the stream ends after increments that all have both
\* flags false, execute returns without raising and without a terminal
\* event, and the task is recorded Working, or Submitted when the stream was
\* empty.
C18_EndsWorkingOrSubmitted ==
    \A i \in Invs :
        EndedWorking(i)
        => /\ TerminalAt(queue[i]) = {}
           /\ ledger[task[i].id].state =
                IF consumed[i] = <<>> THEN Submitted ELSE Working

\* C18 amended: ... or, when the stream was empty, the state the task had
\* when execute began: Submitted for a task execute has just created,
\* InputRequired for the task of a follow-up turn.
C18_EndsWorkingOrUnchanged ==
    \A i \in Invs :
        EndedWorking(i)
        => /\ TerminalAt(queue[i]) = {}
           /\ raised[i] = <<>>
           /\ ledger[task[i].id].state =
                IF consumed[i] # <<>> THEN Working
                ELSE IF startState[i] = "none" THEN Submitted
                ELSE startState[i]

\* A follow-up turn whose stream was empty.
C18_Witness ==
    \E i \in Invs :
        /\ EndedWorking(i) /\ consumed[i] = <<>>
        /\ startState[i] = InputRequired
        /\ ledger[task[i].id].state = InputRequired

----------------------------------------------------------------------------
\* C19 as stated: once the user has answered a prompt with ':q' or 'quit',
\* at the first prompt of a task or at a follow-up prompt, the client asks
\* nothing more: the calls return, cli's continue_loop is false and the loop
\* exits without starting another task.
C19_QuitEndsTheLoop ==
    quitEntered
    => /\ cliPc \in {"return", "loop", "exited"}
       /\ cliPc \in {"loop", "exited"} => ~Truthy(continue_loop)

----------------------------------------------------------------------------
\* C20 as stated: in non-streaming mode, after send_message has raised and
\* the failure has been printed, completeTask raises nothing further.
C20_SendFailureIsHandled ==
    sendFailed => cliError = "none" /\ cliPc # "crashed"

----------------------------------------------------------------------------
\* C21 as stated: the listener answers every request with a Response.  A
\* GET without validationToken gets 400, a GET with one gets 200 and the
\* token as content.  A POST whose verification succeeded gets 200 and is
\* printed as received, and no other POST is; a POST whose verification
\* failed or raised has the failure logged and still gets a Response.
C21_EveryRequestGetsAResponse ==
    \A k \in 1..Len(answers) :
        LET a == answers[k] IN
        /\ a.request.method = "GET" =>
            a.response = IF Falsy(a.request.validationToken) THEN Response("", 400)
                         ELSE Response(a.request.validationToken, 200)
        /\ a.verified \in Verifications =>
            /\ a.response.kind = "Response"
            /\ (a.response.status_code = 200) <=> (a.verified = "True")
            /\ ("push notification received" \in a.printed) <=> (a.verified = "True")
            /\ a.verified = "False" =>
                "push notification verification failed" \in a.printed
            /\ a.verified = "raises" =>
                "error verifying push notification" \in a.printed

====
